---- MODULE Spec2Model ----
(***************************************************************************)
(* Model of the hyperparameter search of Water-Quality-Predictor:          *)
(*   modules/brutus_generator.py  BrutusGenerator (range discretizer,      *)
(*                                preparation worker, search worker,       *)
(*                                inline leaderboard)                      *)
(*   modules/helpers.py           smart_param_generator (candidate sampler)*)
(*   src/forecast.py              Forecast.getAccuracy                     *)
(*   prophet_multivar.py          _compute_accuracy_within_tolerance       *)
(*                                                                         *)
(* Numbers.  Python floats that carry decimal fractions (range bounds,     *)
(* steps, weights) are modelled as exact decimals: an integer v stands for *)
(* v / Scale, Scale = 10^MaxDigits.  round(x, d) is round-half-to-even at  *)
(* d fractional digits.  Accuracies are exact fractions in lowest terms.   *)
(***************************************************************************)
EXTENDS Integers, Sequences, FiniteSets, TLC

VARIABLES
    rg_in,      \* arguments of one get_variations_in_range call
    rg_out,     \* its outcome, or Pending before the call
    gen,        \* the smart_param_generator object being iterated
    variation,  \* the candidate the generator yielded last (None: none yet)
    payload,            \* BrutusGenerator.payload
    n_main_samples,     \* iterate_variants: n_main_samples
    n_regressor_sets,   \* iterate_variants: n_regressor_sets
    fs_root_exists,     \* os.path.isdir(executions_path) on entry
    run_folders,        \* ordinals k whose folder run-k exists on disk
    after_queue,        \* callbacks scheduled with container.after(0, ...)
    prep_pc,            \* start(): "init", "running", "hung", "done"
    target_params,      \* iterate_variants' arguments (None before it runs)
    iteration_params,
    wk_pc,              \* search worker: "none", "next", "eval", "done"
    variation_index,    \* search worker locals
    leaderboard,
    wk_err,
    engine_calls,       \* run ordinal of every forecast_with_regressors call
    last_outcome,       \* what the latest evaluation produced
    fed,                \* the accuracies fed to the leaderboard, in order
    lw_open,            \* the LoadingWindow is on screen
    lw_text,            \* the text the LoadingWindow shows
    errors_shown,       \* messagebox.showerror calls
    info_shown,         \* messagebox.showinfo calls
    ui_crashed,         \* a callback ended with an uncaught exception
    saved,              \* the arguments of every on_save call
    pj_in,      \* arguments of one _forecast_regressors_future call
    pj_out,     \* its outcome, or PendingProjection before the call
    ac_in,      \* arguments of one _compute_accuracy_within_tolerance call
    ac_out      \* the dict it returns, or PendingAccuracy before the call

rvars == <<rg_in, rg_out>>
gvars == <<gen, variation>>
envvars == <<payload, n_main_samples, n_regressor_sets, fs_root_exists>>
wkvars == <<wk_pc, variation_index, leaderboard, wk_err, engine_calls,
            last_outcome, fed, run_folders>>
uivars == <<lw_open, lw_text, errors_shown, info_shown, ui_crashed, saved,
            target_params, iteration_params>>
ovars == <<envvars, wkvars, uivars, after_queue, prep_pc>>
pvars == <<pj_in, pj_out>>
avars == <<ac_in, ac_out>>
vars == <<rvars, gvars, ovars, pvars, avars>>

(* ---------------------------- bounds ---------------------------------- *)

\* Fractional decimal digits the model's numbers carry.
MaxDigits == 2

\* Most forecast points with usable ground truth in one run (n_eval).
MaxEval == 2

\* Last day of the regressor histories given to the future projector.
MaxDay == 5

\* Most rows of a prediction frame scored for accuracy.
MaxPred == 2

\* Largest n_main_samples and n_regressor_sets the sampler is run with on its
\* own.
MaxMainSamples == 3
MaxRegressorSets == 2

\* Capacity of the leaderboard.  The source sets max_leaders = 10
\* (brutus_generator.py:149); the insertion code is parametric in it and the
\* model runs it scaled down.
max_leaders == 2

(* ---------------------------- decimals -------------------------------- *)

RECURSIVE Pow10(_)
Pow10(d) == IF d = 0 THEN 1 ELSE 10 * Pow10(d - 1)

Scale == Pow10(MaxDigits)

\* The decimal n / 10^d in model units.
Dec(n, d) == n * Pow10(MaxDigits - d)

\* None is the empty set, a present value v the singleton {v}.
None == {}
Some(v) == {v}
Val(o) == CHOOSE v \in o : TRUE

Abs(x) == IF x < 0 THEN -x ELSE x

\* n / den (den > 0, n >= 0) rounded to the nearest integer, ties to even.
RoundPos(n, den) ==
    LET q == n \div den
        r == n % den
    IN  IF 2 * r < den THEN q
        ELSE IF 2 * r > den THEN q + 1
        ELSE IF q % 2 = 0 THEN q ELSE q + 1

\* n / den (den # 0) rounded to the nearest integer, ties to even.
RoundRatio(n, den) ==
    LET nn == IF den < 0 THEN -n ELSE n
        dd == Abs(den)
    IN  IF nn >= 0 THEN RoundPos(nn, dd) ELSE -RoundPos(-nn, dd)

\* Python's round(x, d) on a decimal x in model units.
Round(x, d) == RoundRatio(x, Pow10(MaxDigits - d)) * Pow10(MaxDigits - d)

(* ------------------- BrutusGenerator.to_full_int ---------------------- *)

\* The number of times to_full_int multiplies by 10 until int(number) ==
\* number: the count of fractional digits of x.
FullIntDigits(x) ==
    CHOOSE d \in 0..MaxDigits :
        /\ (x * Pow10(d)) % Scale = 0
        /\ \A e \in 0..(d - 1) : (x * Pow10(e)) % Scale # 0

\* to_full_int(x) as a true integer (not in model units).
to_full_int(x) == (x * Pow10(FullIntDigits(x))) \div Scale

(* -------------- BrutusGenerator.get_variations_in_range --------------- *)

InSeq(v, s) == \E k \in 1..Len(s) : s[k] = v

\* while (item + step) <= max_val: item += step; result.append(round(...)).
\* Only called with step > 0 (see Diverges).
RECURSIVE SteppingLoop(_, _, _, _, _)
SteppingLoop(item, step, max_val, digits, result) ==
    IF item + step <= max_val
    THEN SteppingLoop(item + step, step, max_val, digits,
                      Append(result, Round(item + step, digits)))
    ELSE result

\* The stepping loop never ends: the step is zero or negative and the loop
\* condition holds on entry (item only moves away from max_val).
Diverges(item, step, max_val) == step <= 0 /\ item + step <= max_val

\* if max_val not in result: result.append(max_val)
ForceMax(result, max_val) ==
    IF InSeq(max_val, result) THEN result ELSE Append(result, max_val)

\* steps_count * Scale, for the start value lo (min_val after the zero rule).
StepsCountScaled(lo, max_val) ==
    max_val * Pow10(FullIntDigits(lo)) - to_full_int(lo) * Scale + Scale

\* The step inferred when step is None (lines 291-303); defined when
\* StepsCountScaled # 0.
InferredStep(lo, max_val, steps_cap) ==
    LET d  == FullIntDigits(lo)
        sc == StepsCountScaled(lo, max_val)
        u  == Pow10(MaxDigits - d)
    IN  IF steps_cap # None /\ Val(steps_cap) * Scale < sc
        THEN RoundRatio(max_val * Pow10(d), Val(steps_cap) * Scale) * u
        ELSE RoundRatio(max_val * Pow10(d), sc) * u

\* The outcome of get_variations_in_range(min_val, max_val, step, max_steps)
\* (steps_cap is the source's parameter max_steps):
\*   kind "ok"       it returns values
\*   kind "raise"    it raises ZeroDivisionError (steps_count = 0)
\*   kind "diverge"  the stepping loop never ends
get_variations_in_range(min_val, max_val, step, steps_cap) ==
    LET seed   == IF min_val = 0 THEN <<0, Dec(1, 0)>> ELSE <<min_val>>
        lo     == IF min_val = 0 THEN Dec(1, 0) ELSE min_val
        zero   == step = None /\ StepsCountScaled(lo, max_val) = 0
        st     == IF step = None THEN InferredStep(lo, max_val, steps_cap)
                  ELSE Val(step)
        digits == IF step = None THEN FullIntDigits(lo)
                  ELSE FullIntDigits(Val(step))
    IN  IF zero THEN [kind |-> "raise", values |-> <<>>]
        ELSE IF Diverges(lo, st, max_val)
        THEN [kind |-> "diverge", values |-> <<>>]
        ELSE [kind |-> "ok",
              values |-> ForceMax(SteppingLoop(lo, st, max_val, digits, seed),
                                  max_val)]

(* ------------------ helpers.smart_param_generator --------------------- *)

Range(s) == {s[k] : k \in 1..Len(s)}

EmptyDict == [k \in {} |-> 0]

\* Every dict over the keys ks that maps each key k to one element of the
\* list lists[k]: what one random.choice per key can produce.
RECURSIVE Choices(_, _)
Choices(ks, lists) ==
    IF ks = {} THEN {EmptyDict}
    ELSE LET k == CHOOSE x \in ks : TRUE
         IN  {[x \in ks |-> IF x = k THEN v ELSE f[x]] :
                 f \in Choices(ks \ {k}, lists), v \in Range(lists[k])}

\* base = {k: random.choice(space[k]) for k in simple_keys}
BaseChoices(space) == Choices(DOMAIN space.simple, space.simple)

\* chosen: each regressor is included or not (random.random() < 0.3), an
\* included one with a weight drawn from its list.
ChosenChoices(space) ==
    UNION {Choices(S, space.regressors) : S \in SUBSET DOMAIN space.regressors}

\* A yielded candidate {**base, "regressors": regs}; train_start and
\* train_end are the keys the search worker adds, absent (None) here.
Candidate(base, regs) ==
    [base |-> base, regressors |-> regs, train_start |-> None,
     train_end |-> None]

\* The generator object right after the call: no code of it has run yet.
\* i counts finished main draws, j is the place within the current draw
\* (0: the baseline is next), yielded counts the candidates yielded.
smart_param_generator(space, m, n) ==
    [space |-> space, m |-> m, n |-> n,
     i |-> 0, j |-> 0, base |-> EmptyDict, yielded |-> 0, done |-> FALSE]

\* GenAdvance with range(n_regressor_sets - 1) in line 30.
GenAdvance_OneSetShort(g, base) ==
    IF g.j + 1 >= g.n
    THEN [g EXCEPT !.i = g.i + 1, !.j = 0, !.base = base,
                   !.yielded = g.yielded + 1]
    ELSE [g EXCEPT !.j = g.j + 1, !.base = base, !.yielded = g.yielded + 1]

\* Where the generator stands after yielding at place j of draw i.
GenAdvance(g, base) ==
    IF g.j = g.n
    THEN [g EXCEPT !.i = g.i + 1, !.j = 0, !.base = base,
                   !.yielded = g.yielded + 1]
    ELSE [g EXCEPT !.j = g.j + 1, !.base = base, !.yielded = g.yielded + 1]

\* One next() on the generator: the set of outcomes [gen, out], out the
\* yielded candidate, or None when the generator is exhausted
\* (StopIteration).
GenNext(g) ==
    IF g.done \/ g.i >= g.m
    THEN {[gen |-> [g EXCEPT !.done = TRUE], out |-> None]}
    ELSE IF g.j = 0
    THEN {[gen |-> GenAdvance(g, b), out |-> Some(Candidate(b, EmptyDict))] :
             b \in BaseChoices(g.space)}
    ELSE {[gen |-> GenAdvance(g, g.base),
           out |-> Some(Candidate(g.base, c))] : c \in ChosenChoices(g.space)}

\* max_combinations_count = n_main_samples * (n_regressor_sets + 1)
max_combinations_count(m, n) == m * (n + 1)

(* ---- prophet_multivar._compute_accuracy_within_tolerance (result) ---- *)

RECURSIVE Gcd(_, _)
Gcd(a, b) == IF b = 0 THEN a ELSE Gcd(b, a % b)

\* The fraction num / den (den > 0) in lowest terms: equal fractions are
\* equal values, as equal quotients are equal floats.
Frac(num, den) == <<num \div Gcd(num, den), den \div Gcd(num, den)>>

FracGt(a, b) == a[1] * b[2] > b[1] * a[2]

\* The counts a run can end with: n_eval points with a non-missing,
\* non-zero actual, n_within of them within the tolerance.
EngineStats ==
    {s \in [n_eval : 0..MaxEval, n_within : 0..MaxEval] :
        s.n_within <= s.n_eval}

\* "accuracy" of the returned dict: None when n_eval == 0, else
\* n_within / n_eval.
compute_accuracy(stats) ==
    IF stats.n_eval = 0 THEN None
    ELSE Some(Frac(stats.n_within, stats.n_eval))

\* compute_accuracy_within_tolerance without df = df[df["y"].abs() > 0]
\* (line 577): a zero actual is counted in n_eval and is never within.
compute_accuracy_within_tolerance_KeepsZero(pred, actuals_on_grid, tol) ==
    IF pred = <<>> \/ actuals_on_grid = <<>>
    THEN [accuracy |-> None, n_total |-> Len(pred), n_eval |-> 0,
          n_within |-> 0]
    ELSE LET merged == {r \in (1..Len(pred)) \X (1..Len(actuals_on_grid)) :
                           pred[r[1]].ds = actuals_on_grid[r[2]].ds}
             df == {r \in merged : actuals_on_grid[r[2]].y # None}
             y(r) == Val(actuals_on_grid[r[2]].y)
             within == {r \in df :
                          /\ y(r) # 0
                          /\ Abs(pred[r[1]].yhat - y(r)) * tol[2]
                                <= tol[1] * Abs(y(r))}
             stats == [n_eval |-> Cardinality(df),
                       n_within |-> Cardinality(within)]
         IN  [accuracy |-> compute_accuracy(stats), n_total |-> Len(pred),
              n_eval |-> stats.n_eval,
              n_within |-> IF stats.n_eval = 0 THEN 0 ELSE stats.n_within]

\* _compute_accuracy_within_tolerance on a prediction frame (rows
\* [ds, yhat]) and an actuals frame (rows [ds, y], y None for NaN); the
\* tolerance is the fraction tol[1] / tol[2].  A row of the merged frame
\* is the pair of the rows it joins.
compute_accuracy_within_tolerance(pred, actuals_on_grid, tol) ==
    IF pred = <<>> \/ actuals_on_grid = <<>>
    THEN [accuracy |-> None, n_total |-> Len(pred), n_eval |-> 0,
          n_within |-> 0]
    ELSE LET merged == {r \in (1..Len(pred)) \X (1..Len(actuals_on_grid)) :
                           pred[r[1]].ds = actuals_on_grid[r[2]].ds}
             nona == {r \in merged : actuals_on_grid[r[2]].y # None}
             y(r) == Val(actuals_on_grid[r[2]].y)
             df == {r \in nona : Abs(y(r)) > 0}
             within == {r \in df :
                          Abs(pred[r[1]].yhat - y(r)) * tol[2]
                              <= tol[1] * Abs(y(r))}
             stats == [n_eval |-> Cardinality(df),
                       n_within |-> Cardinality(within)]
         IN  [accuracy |-> compute_accuracy(stats), n_total |-> Len(pred),
              n_eval |-> stats.n_eval,
              n_within |-> IF stats.n_eval = 0 THEN 0 ELSE stats.n_within]

(* ----------------------- Forecast.getAccuracy ------------------------- *)

\* float(accuracy) * 100; float(None) raises TypeError.
getAccuracy(stored) ==
    IF stored = None THEN [raised |-> TRUE, value |-> Frac(0, 1)]
    ELSE [raised |-> FALSE,
          value |-> Frac(100 * Val(stored)[1], Val(stored)[2])]

(* -------------- the leaderboard of iterate_variants.worker ------------ *)

\* The leaderboard is a dict keyed by rank; Ranks is its key set.
Ranks(lb) == DOMAIN lb

\* LeaderIndex with ">=" for ">" in the scan of line 224.
LeaderIndex_TiesFirst(lb, result_accuracy) ==
    LET count == Cardinality(Ranks(lb))
        lower == {i \in Ranks(lb) : ~FracGt(lb[i].accuracy, result_accuracy)}
    IN  IF count = 0 THEN [can |-> TRUE, index |-> 0]
        ELSE IF lower # {}
        THEN [can |-> TRUE,
              index |-> CHOOSE i \in lower : \A k \in lower : i <= k]
        ELSE IF count < max_leaders THEN [can |-> TRUE, index |-> count]
        ELSE [can |-> FALSE, index |-> 0]

\* LeaderIndex without the break of line 227: the last lower entry wins.
LeaderIndex_LastLower(lb, result_accuracy) ==
    LET count == Cardinality(Ranks(lb))
        lower == {i \in Ranks(lb) : FracGt(result_accuracy, lb[i].accuracy)}
    IN  IF count = 0 THEN [can |-> TRUE, index |-> 0]
        ELSE IF lower # {}
        THEN [can |-> TRUE,
              index |-> CHOOSE i \in lower : \A k \in lower : i >= k]
        ELSE IF count < max_leaders THEN [can |-> TRUE, index |-> count]
        ELSE [can |-> FALSE, index |-> 0]

\* LeaderIndex with "<" for ">" in the scan of line 224.
LeaderIndex_Inverted(lb, result_accuracy) ==
    LET count == Cardinality(Ranks(lb))
        higher == {i \in Ranks(lb) : FracGt(lb[i].accuracy, result_accuracy)}
    IN  IF count = 0 THEN [can |-> TRUE, index |-> 0]
        ELSE IF higher # {}
        THEN [can |-> TRUE,
              index |-> CHOOSE i \in higher : \A k \in higher : i <= k]
        ELSE IF count < max_leaders THEN [can |-> TRUE, index |-> count]
        ELSE [can |-> FALSE, index |-> 0]

\* Lines 212-231: can_be_in_leaderboard and leader_index for a result.
LeaderIndex(lb, result_accuracy) ==
    LET count == Cardinality(Ranks(lb))
        lower == {i \in Ranks(lb) : FracGt(result_accuracy, lb[i].accuracy)}
    IN  IF count = 0 THEN [can |-> TRUE, index |-> 0]
        ELSE IF lower # {}
        THEN [can |-> TRUE,
              index |-> CHOOSE i \in lower : \A k \in lower : i <= k]
        ELSE IF count < max_leaders THEN [can |-> TRUE, index |-> count]
        ELSE [can |-> FALSE, index |-> 0]

\* NewLeaderboard with range(max_leaders + 1) in line 244.
NewLeaderboard_Uncapped(lb, leader_index, new_item) ==
    IF Cardinality(Ranks(lb)) = 0 THEN [i \in {0} |-> new_item]
    ELSE LET keys == {i \in 0..max_leaders :
                         \/ i < leader_index
                         \/ i = leader_index
                         \/ (i > leader_index /\ (i - 1) \in Ranks(lb))}
         IN  [i \in keys |-> IF i < leader_index THEN lb[i]
                              ELSE IF i = leader_index THEN new_item
                              ELSE lb[i - 1]]

\* NewLeaderboard without the shift of lines 249-250: the new item takes
\* the place of the entry at leader_index.
NewLeaderboard_Overwrite(lb, leader_index, new_item) ==
    IF Cardinality(Ranks(lb)) = 0 THEN [i \in {0} |-> new_item]
    ELSE [i \in Ranks(lb) \cup {leader_index} |->
             IF i = leader_index THEN new_item ELSE lb[i]]

\* Lines 240-252: the leaderboard with new_item put at leader_index.
NewLeaderboard(lb, leader_index, new_item) ==
    IF Cardinality(Ranks(lb)) = 0 THEN [i \in {0} |-> new_item]
    ELSE LET keys == {i \in 0..(max_leaders - 1) :
                         \/ i < leader_index
                         \/ i = leader_index
                         \/ (i > leader_index /\ (i - 1) \in Ranks(lb))}
         IN  [i \in keys |-> IF i < leader_index THEN lb[i]
                              ELSE IF i = leader_index THEN new_item
                              ELSE lb[i - 1]]

\* Lines 212-252: the leaderboard after one ranked result.
UpdateLeaderboard(lb, new_item) ==
    LET li == LeaderIndex(lb, new_item.accuracy)
    IN  IF li.can THEN NewLeaderboard(lb, li.index, new_item) ELSE lb

\* fill_model_meta with "train_from" read from the fixed end year.
fill_model_meta_FixedWindow(tp, v) ==
    [name |-> tp.name, timeseries |-> tp.timeseries,
     parameter |-> tp.parameter,
     train_from |-> v.train_end, train_to |-> v.train_end,
     min_value |-> tp.min_value, max_value |-> tp.max_value,
     result_freq |-> tp.result_freq, model_freq |-> tp.model_freq,
     regressors |-> DOMAIN v.regressors, weights |-> v.regressors,
     params |-> [k \in DOMAIN v.base \ {"train_year"} |-> v.base[k]]]

\* fill_model_meta({**target_params, **variation}); created_at (the wall
\* clock) is left out.
fill_model_meta(tp, v) ==
    [name |-> tp.name, timeseries |-> tp.timeseries,
     parameter |-> tp.parameter,
     train_from |-> v.train_start, train_to |-> v.train_end,
     min_value |-> tp.min_value, max_value |-> tp.max_value,
     result_freq |-> tp.result_freq, model_freq |-> tp.model_freq,
     regressors |-> DOMAIN v.regressors, weights |-> v.regressors,
     params |-> [k \in DOMAIN v.base \ {"train_year"} |-> v.base[k]]]

\* The text of a progress update: the count, the total and the leaders'
\* names and accuracies in rank order.
ProgressText(completed, total, lb) ==
    [kind |-> "progress", completed |-> completed, total |-> total,
     leaders |-> [i \in Ranks(lb) |->
                     [name |-> lb[i].name, accuracy |-> lb[i].accuracy]]]

(* ------------------- BrutusGenerator.start.worker --------------------- *)

\* float(s) of a payload string: the string is None when it is no number.
FloatRaises(s) == s = None

\* int(s) of a payload string raises unless s is an integer literal.
IntRaises(s) == s = None \/ Val(s) % Scale # 0

\* int(x) of a float x: truncation toward zero, as a true integer.
Trunc(x) == IF x >= 0 THEN x \div Scale ELSE -((-x) \div Scale)

\* One self.get_variations_in_range(float(lo), float(hi), ...) argument
\* list of the worker, evaluated: ValueError from float(), else the call.
RangeOf(lo, hi, step, steps_cap) ==
    IF FloatRaises(lo) \/ FloatRaises(hi)
    THEN [kind |-> "raise", values |-> <<>>]
    ELSE get_variations_in_range(Val(lo), Val(hi), step, steps_cap)

\* The keys of iteration_params built with max_steps = 25, in source order.
max_steps == 25

TunedKeys ==
    <<"regressor_prior_scale", "regressor_future_linear_window",
      "smooth_window", "changepoint_prior_scale", "seasonality_prior_scale",
      "regressor_global_importance">>

\* The worker's steps that can fail, in evaluation order (lines 39-91).
PrepSteps(p) ==
    [k \in 1..(3 + Len(TunedKeys)) |->
        IF k = 1
        THEN IF IntRaises(p.train_to_year)
             THEN [kind |-> "raise", values |-> <<>>]
             ELSE [kind |-> "ok", values |-> <<>>]
        ELSE IF k = 2
        THEN RangeOf(p.min_single_regressor_value,
                     p.max_single_regressor_value, None, Some(10))
        ELSE IF k = 3
        THEN RangeOf(p.train_from_year, p.train_to_year, Some(Dec(1, 0)),
                     None)
        ELSE RangeOf(p.bounds[TunedKeys[k - 3]][1],
                     p.bounds[TunedKeys[k - 3]][2], None, Some(max_steps))]

\* The first step that does not complete, 0 when all do.
FirstFailure(steps) ==
    IF \A k \in 1..Len(steps) : steps[k].kind = "ok" THEN 0
    ELSE CHOOSE k \in 1..Len(steps) :
             /\ steps[k].kind # "ok"
             /\ \A e \in 1..(k - 1) : steps[e].kind = "ok"

\* target_params (lines 39-50).
TargetParams(p) ==
    [name |-> p.name, timeseries |-> p.timeseries, parameter |-> p.parameter,
     target_forecast_from |-> p.target_forecast_from,
     target_forecast_to |-> p.target_forecast_to,
     result_freq |-> p.result_freq, model_freq |-> p.model_freq,
     min_value |-> p.min_value, max_value |-> p.max_value,
     train_year_max |-> Trunc(Val(p.train_to_year))]

\* IterationParams without the test regressor != self.payload['parameter']
\* of line 61.
IterationParams_KeepsTarget(p) ==
    LET steps == PrepSteps(p)
        names == {p.regressors[k] : k \in 1..Len(p.regressors)}
    IN  [simple |->
            [k \in {"train_year", "regressor_standardize", "regressor_mode",
                    "smooth_regressors"} \cup Range(TunedKeys) |->
                CASE k = "train_year" -> steps[3].values
                  [] k = "regressor_standardize" -> p.regressor_standardize
                  [] k = "regressor_mode" -> p.regressor_mode
                  [] k = "smooth_regressors" -> p.smooth_regressors
                  [] OTHER ->
                       steps[3 + CHOOSE i \in 1..Len(TunedKeys) :
                                     TunedKeys[i] = k].values],
         regressors |-> [r \in names |-> steps[2].values]]

\* iteration_params (lines 54-96), as the search space the sampler reads:
\* the simple keys, and "regressors" with the shared weight list for every
\* declared regressor but the target parameter.
IterationParams(p) ==
    LET steps == PrepSteps(p)
        names == {p.regressors[k] : k \in 1..Len(p.regressors)}
                 \ {p.parameter}
    IN  [simple |->
            [k \in {"train_year", "regressor_standardize", "regressor_mode",
                    "smooth_regressors"} \cup Range(TunedKeys) |->
                CASE k = "train_year" -> steps[3].values
                  [] k = "regressor_standardize" -> p.regressor_standardize
                  [] k = "regressor_mode" -> p.regressor_mode
                  [] k = "smooth_regressors" -> p.smooth_regressors
                  [] OTHER ->
                       steps[3 + CHOOSE i \in 1..Len(TunedKeys) :
                                     TunedKeys[i] = k].values],
         regressors |-> [r \in names |-> steps[2].values]]

(* ---------- prophet_multivar._forecast_regressors_future --------------- *)

\* Timestamps are day numbers and the frequency is daily.  A history is
\* the series _prepare_param_series returns: rows [ds, y] with ascending
\* ds and no missing y.  A value is the exact quotient num / den; a cell
\* of a column is None (NaN) or Some(value).
Value(num, den) == [num |-> num, den |-> den]

\* pd.date_range(start=fcst_start, end=fcst_end, freq=freq)
date_range(fcst_start, fcst_end) ==
    [i \in 1..(fcst_end - fcst_start + 1) |-> fcst_start + i - 1]

\* pd.Series(val, index=future_index)
ConstantSeries(val, future_index) ==
    [i \in 1..Len(future_index) |-> Some(val)]

RECURSIVE Sum(_, _)
Sum(f, S) ==
    IF S = {} THEN 0
    ELSE LET k == CHOOSE x \in S : TRUE IN f[k] + Sum(f, S \ {k})

\* strategy == "last": hist.iloc[-1]
LastValue(hist) == Value(hist[Len(hist)].y, 1)

\* strategy == "moving_average":
\* hist.rolling(ma_window, min_periods=1).mean().iloc[-1]
MovingAverage(hist, ma_window) ==
    LET n == IF ma_window < Len(hist) THEN ma_window ELSE Len(hist)
        rows == (Len(hist) - n + 1)..Len(hist)
    IN  Value(Sum([k \in rows |-> hist[k].y], rows), n)

\* strategy == "linear": the rows the line is fitted on (lines 136-142).
LinearRows(hist, linear_window) ==
    IF Len(hist) > 3
    THEN LET cutoff == hist[Len(hist)].ds - linear_window
             h == {k \in 1..Len(hist) : hist[k].ds >= cutoff}
         IN  IF h = {} THEN 1..Len(hist) ELSE h
    ELSE 1..Len(hist)

\* strategy == "linear": intercept + slope * xf (lines 144-155), with
\* slope = 0 and intercept = y_mean when denom == 0.
LinearFit(hist, linear_window, future_index) ==
    LET h   == LinearRows(hist, linear_window)
        n   == Cardinality(h)
        sx  == Sum([k \in h |-> hist[k].ds], h)
        sy  == Sum([k \in h |-> hist[k].y], h)
        sxx == Sum([k \in h |-> hist[k].ds * hist[k].ds], h)
        sxy == Sum([k \in h |-> hist[k].ds * hist[k].y], h)
        denom == n * sxx - sx * sx
        numer == n * sxy - sx * sy
    IN  [i \in 1..Len(future_index) |->
            IF denom = 0 THEN Some(Value(sy, n))
            ELSE Some(Value(sy * denom + numer * (n * future_index[i] - sx),
                            n * denom))]

\* Prophet.fit refuses a history with fewer than 2 rows.
ProphetFitRaises(hist) == Len(hist) < 2

\* Prophet.predict refuses a frame with no rows.
ProphetPredictRaises(future_index) == Len(future_index) = 0

\* pm.predict(pfut)["yhat"].reindex(future_index): one yhat per
\* timestamp; its value is the engine's and is left open (0 here).
ProphetYhat(future_index) ==
    [i \in 1..Len(future_index) |-> Some(Value(0, 1))]

\* .ffill(): a missing cell takes the last present cell before it.
ffill(col) ==
    [i \in 1..Len(col) |->
        IF col[i] # None THEN col[i]
        ELSE LET before == {k \in 1..(i - 1) : col[k] # None}
             IN  IF before = {} THEN None
                 ELSE col[CHOOSE k \in before : \A e \in before : e <= k]]

\* .bfill(): a missing cell takes the first present cell after it.
bfill(col) ==
    [i \in 1..Len(col) |->
        IF col[i] # None THEN col[i]
        ELSE LET after == {k \in (i + 1)..Len(col) : col[k] # None}
             IN  IF after = {} THEN None
                 ELSE col[CHOOSE k \in after : \A e \in after : k <= e]]

\* y_future for one regressor: [raised, col].
YFuture(hist, strategy, ma_window, linear_window, future_index) ==
    IF hist = <<>> THEN [raised |-> TRUE, col |-> <<>>]
    ELSE IF strategy = "last"
    THEN [raised |-> FALSE,
          col |-> ConstantSeries(LastValue(hist), future_index)]
    ELSE IF strategy = "moving_average"
    THEN [raised |-> FALSE,
          col |-> ConstantSeries(MovingAverage(hist, ma_window),
                                 future_index)]
    ELSE IF strategy = "linear"
    THEN [raised |-> FALSE,
          col |-> LinearFit(hist, linear_window, future_index)]
    ELSE IF ProphetFitRaises(hist) \/ ProphetPredictRaises(future_index)
    THEN [raised |-> TRUE, col |-> <<>>]
    ELSE [raised |-> FALSE, col |-> ProphetYhat(future_index)]

\* The outcome of _forecast_regressors_future for the regressor histories
\* hists: kind "raise", or kind "ok" with one row [ds, cols] per timestamp
\* of future_index, cols[r] the cell of regressor r.
forecast_regressors_future(hists, strategy, ma_window, linear_window, fcst_start, fcst_end) ==
    LET future_index == date_range(fcst_start, fcst_end)
        ys == [r \in 1..Len(hists) |->
                  YFuture(hists[r], strategy, ma_window, linear_window,
                          future_index)]
    IN  IF \E r \in 1..Len(hists) : ys[r].raised
        THEN [kind |-> "raise", rows |-> <<>>]
        ELSE [kind |-> "ok",
              rows |-> [i \in 1..Len(future_index) |->
                           [ds |-> future_index[i],
                            cols |-> [r \in 1..Len(hists) |->
                                         bfill(ffill(ys[r].col))[i]]]]]

\* No call made yet; the variables of the projector when it is not used.
PendingProjection == [kind |-> "pending", rows |-> <<>>]

IdleProj ==
    /\ pj_in = [hists |-> <<>>, strategy |-> "last", ma_window |-> 1,
                linear_window |-> 1, fcst_start |-> 1, fcst_end |-> 0]
    /\ pj_out = PendingProjection

\* No call made yet; the variables of the accuracy scoring when it is not
\* used.
PendingAccuracy ==
    [accuracy |-> None, n_total |-> -1, n_eval |-> -1, n_within |-> -1]

IdleAcc ==
    /\ ac_in = [pred |-> <<>>, actuals_on_grid |-> <<>>, tolerance |-> <<1, 5>>]
    /\ ac_out = PendingAccuracy

(* --------- specification of get_variations_in_range alone ------------- *)

Pending == [kind |-> "pending", values |-> <<>>]

\* Range bounds tried: negative, zero, fractional and whole numbers.
RangeValues ==
    {-Dec(5, 0), -Dec(1, 0), Dec(0, 0), Dec(1, 1), Dec(5, 1), Dec(1, 0),
     Dec(2, 0), Dec(3, 0), Dec(4, 0), Dec(5, 0)}

\* step: omitted, or the int 1 the search passes for training years, or 0.5.
RangeSteps == {None, Some(Dec(1, 0)), Some(Dec(5, 1))}

\* max_steps: omitted, or a cap.
RangeMaxSteps == {None, Some(2), Some(10)}

RangeInputs ==
    [min_val : RangeValues, max_val : RangeValues,
     step : RangeSteps, max_steps : RangeMaxSteps]

\* The variables a specification does not use keep these values.
IdleRange == rg_in = [min_val |-> Dec(1, 0), max_val |-> Dec(1, 0),
                      step |-> None, max_steps |-> None] /\ rg_out = Pending
IdleGen == gen = smart_param_generator(
                     [simple |-> EmptyDict, regressors |-> EmptyDict], 0, 0)
           /\ variation = None

\* The LoadingWindow's first text, "Підготовка комбінацій...".
PreparingText ==
    [kind |-> "preparing", completed |-> 0, total |-> 0, leaders |-> EmptyDict]

\* What an evaluation produced: its kind ("raised", "absent", "null",
\* "ranked") and the accuracy the run persisted.
NoOutcome == [kind |-> "none", accuracy |-> None]

\* A BrutusGenerator right after __init__.
Constructed ==
    /\ run_folders = {}
    /\ after_queue = <<>>
    /\ prep_pc = "init"
    /\ target_params = None
    /\ iteration_params = None
    /\ wk_pc = "none"
    /\ variation_index = 0
    /\ leaderboard = EmptyDict
    /\ wk_err = None
    /\ engine_calls = <<>>
    /\ last_outcome = NoOutcome
    /\ fed = <<>>
    /\ lw_open = TRUE
    /\ lw_text = PreparingText
    /\ errors_shown = 0
    /\ info_shown = 0
    /\ ui_crashed = FALSE
    /\ saved = <<>>

\* A payload the form can submit: whole training years, a weight range
\* for the one regressor besides the target, single-valued tuned ranges.
TypicalPayload ==
    [name |-> "model", timeseries |-> "river", parameter |-> "ph",
     target_forecast_from |-> "2021-01-01",
     target_forecast_to |-> "2021-12-31",
     result_freq |-> "D", model_freq |-> "M",
     min_value |-> Some(Dec(0, 0)), max_value |-> Some(Dec(14, 0)),
     train_from_year |-> Some(Dec(2019, 0)),
     train_to_year |-> Some(Dec(2020, 0)),
     min_single_regressor_value |-> Some(Dec(1, 0)),
     max_single_regressor_value |-> Some(Dec(2, 0)),
     bounds |-> [k \in Range(TunedKeys) |-> <<Some(Dec(1, 0)), Some(Dec(1, 0))>>],
     regressors |-> <<"ph", "temp">>,
     regressor_standardize |-> <<"auto">>,
     regressor_mode |-> <<"additive">>,
     smooth_regressors |-> <<"True">>]

IdleSearch ==
    /\ Constructed
    /\ payload = TypicalPayload
    /\ n_main_samples = 0
    /\ n_regressor_sets = 0
    /\ fs_root_exists = FALSE

InitRange ==
    /\ IdleProj
    /\ IdleAcc
    /\ rg_in \in RangeInputs
    /\ rg_out = Pending
    /\ IdleGen
    /\ IdleSearch

\* One call of get_variations_in_range on the chosen arguments.
RangeCall ==
    /\ rg_out = Pending
    /\ rg_out' = get_variations_in_range(rg_in.min_val, rg_in.max_val,
                                         rg_in.step, rg_in.max_steps)
    /\ UNCHANGED <<rg_in, avars, pvars, gvars, ovars>>

NextRange == RangeCall

SpecRange == InitRange /\ [][NextRange]_vars

(* ----------- specification of smart_param_generator alone ------------- *)

\* Search spaces: value lists as get_variations_in_range and the form
\* build them (never empty), with no, one or two declared regressors.
GenSpaces ==
    {[simple |-> [train_year |-> <<Dec(2019, 0), Dec(2020, 0)>>,
                  regressor_mode |-> <<"additive", "multiplicative">>],
      regressors |-> EmptyDict],
     [simple |-> [train_year |-> <<Dec(2020, 0)>>],
      regressors |-> [temp |-> <<Dec(1, 0), Dec(2, 0)>>]],
     [simple |-> [train_year |-> <<Dec(2019, 0), Dec(2020, 0)>>],
      regressors |-> [temp |-> <<Dec(1, 0)>>, o2 |-> <<Dec(1, 0)>>]]}

InitGen ==
    /\ IdleProj
    /\ IdleAcc
    /\ IdleRange
    /\ IdleSearch
    /\ \E space \in GenSpaces, m \in 0..MaxMainSamples,
          n \in 0..MaxRegressorSets :
          gen = smart_param_generator(space, m, n)
    /\ variation = None

\* The consumer's for loop takes the next candidate.
GenYield ==
    /\ ~gen.done
    /\ \E r \in GenNext(gen) :
          /\ r.out # None
          /\ gen' = r.gen
          /\ variation' = r.out
    /\ UNCHANGED <<avars, pvars, rvars, ovars>>

\* The generator is exhausted: the for loop ends.
GenStop ==
    /\ ~gen.done
    /\ \E r \in GenNext(gen) :
          /\ r.out = None
          /\ gen' = r.gen
          /\ UNCHANGED variation
    /\ UNCHANGED <<avars, pvars, rvars, ovars>>

NextGen == GenYield \/ GenStop

SpecGen == InitGen /\ [][NextGen]_vars

(* ------- specification of _forecast_regressors_future alone ----------- *)

RECURSIVE Ascending(_)
Ascending(S) ==
    IF S = {} THEN <<>>
    ELSE LET d == CHOOSE x \in S : \A e \in S : x <= e
         IN  <<d>> \o Ascending(S \ {d})

\* Histories: any non-empty set of days up to MaxDay, with values that are
\* flat, rising or alternating.
Histories ==
    {[k \in 1..Cardinality(S) |->
         [ds |-> Ascending(S)[k],
          y |-> CASE shape = "flat" -> 2
                  [] shape = "rising" -> Ascending(S)[k]
                  [] OTHER -> 1 + (Ascending(S)[k] % 2)]] :
        S \in (SUBSET (1..MaxDay)) \ {{}},
        shape \in {"flat", "rising", "alternating"}}

\* One regressor, or two with a second history of two rows.
ProjectionInputs ==
    [hists : {<<h>> : h \in Histories} \cup
             {<<h, <<[ds |-> 1, y |-> 1], [ds |-> 2, y |-> 3]>> >> :
                 h \in Histories},
     strategy : {"last", "moving_average", "linear", "prophet"},
     ma_window : {1, 3},
     linear_window : {1, 90},
     fcst_start : {MaxDay + 1},
     fcst_end : {MaxDay, MaxDay + 1, MaxDay + 3}]

InitProj ==
    /\ pj_in \in ProjectionInputs
    /\ pj_out = PendingProjection
    /\ IdleAcc
    /\ IdleRange
    /\ IdleGen
    /\ IdleSearch

\* One call of _forecast_regressors_future on the chosen arguments.
ProjectionCall ==
    /\ pj_out = PendingProjection
    /\ pj_out' = forecast_regressors_future(
                     pj_in.hists, pj_in.strategy, pj_in.ma_window,
                     pj_in.linear_window, pj_in.fcst_start, pj_in.fcst_end)
    /\ UNCHANGED <<pj_in, avars, rvars, gvars, ovars>>

NextProj == ProjectionCall

SpecProj == InitProj /\ [][NextProj]_vars

(* ------ specification of _compute_accuracy_within_tolerance alone ----- *)

\* The rows of a frame whose timestamps are the days of S, ascending, with
\* the column given by f.
RECURSIVE FrameOf(_, _, _)
FrameOf(S, f, col) ==
    IF S = {} THEN <<>>
    ELSE LET d == CHOOSE x \in S : \A z \in S : x <= z
         IN  <<IF col = "yhat" THEN [ds |-> d, yhat |-> f[d]]
                               ELSE [ds |-> d, y |-> f[d]]>>
             \o FrameOf(S \ {d}, f, col)

\* Predictions on the days 1..n: 1 %, 20 % and 50 % above 1.
PredFrames ==
    UNION {{FrameOf(1..n, f, "yhat") :
               f \in [1..n -> {Dec(101, 2), Dec(120, 2), Dec(150, 2)}]} :
           n \in 0..MaxPred}

\* Aggregated actuals on some of the days 1..MaxPred: missing, zero, 1 or
\* -1 (one row per timestamp, as _aggregate returns them).
ActualFrames ==
    UNION {{FrameOf(S, f, "y") :
               f \in [S -> {None, Some(0), Some(Dec(1, 0)),
                            Some(-Dec(1, 0))}]} :
           S \in SUBSET (1..MaxPred)}

AccuracyInputs ==
    [pred : PredFrames, actuals_on_grid : ActualFrames,
     tolerance : {<<1, 100>>, <<1, 5>>}]

InitAcc ==
    /\ ac_in \in AccuracyInputs
    /\ ac_out = PendingAccuracy
    /\ IdleProj
    /\ IdleRange
    /\ IdleGen
    /\ IdleSearch

\* One call of _compute_accuracy_within_tolerance on the chosen arguments.
AccuracyCall ==
    /\ ac_out = PendingAccuracy
    /\ ac_out' = compute_accuracy_within_tolerance(
                     ac_in.pred, ac_in.actuals_on_grid, ac_in.tolerance)
    /\ UNCHANGED <<ac_in, pvars, rvars, gvars, ovars>>

NextAcc == AccuracyCall

SpecAcc == InitAcc /\ [][NextAcc]_vars

(* ------------------- specification of the search ---------------------- *)

\* Payloads: the typical one, and ones with both training years 0, with
\* training years inverted (these two with one regressor weight), a field
\* that is no number, a fractional end year, a tuned range whose
\* steps_count is zero, a tuned range whose inferred step is zero.
Payloads ==
    {TypicalPayload,
     [TypicalPayload EXCEPT !.train_from_year = Some(Dec(0, 0)),
                            !.train_to_year = Some(Dec(0, 0)),
                            !.max_single_regressor_value = Some(Dec(1, 0))],
     [TypicalPayload EXCEPT !.train_from_year = Some(Dec(2020, 0)),
                            !.train_to_year = Some(Dec(2019, 0)),
                            !.max_single_regressor_value = Some(Dec(1, 0))],
     [TypicalPayload EXCEPT
         !.bounds["regressor_prior_scale"] = <<None, Some(Dec(1, 0))>>],
     [TypicalPayload EXCEPT !.train_to_year = Some(Dec(20205, 1))],
     [TypicalPayload EXCEPT
         !.bounds["smooth_window"] = <<Some(Dec(2, 0)), Some(Dec(1, 0))>>],
     [TypicalPayload EXCEPT
         !.bounds["changepoint_prior_scale"] =
             <<Some(-Dec(5, 0)), Some(Dec(5, 0))>>],
     [TypicalPayload EXCEPT !.max_value = None]}

\* (n_main_samples, n_regressor_sets) pairs the search is run with; the
\* source fixes 840 and 11 (brutus_generator.py:128-129).
SearchSizes == {<<0, 1>>, <<1, 0>>, <<1, 1>>, <<2, 1>>}

Init ==
    /\ IdleProj
    /\ IdleAcc
    /\ IdleRange
    /\ IdleGen
    /\ Constructed
    /\ payload \in Payloads
    /\ \E sz \in SearchSizes :
          n_main_samples = sz[1] /\ n_regressor_sets = sz[2]
    /\ fs_root_exists \in BOOLEAN

\* container.after(0, callback)
After(callback) == after_queue' = Append(after_queue, callback)

\* BrutusGenerator.start: the preparation worker thread is started.
Start ==
    /\ prep_pc = "init"
    /\ prep_pc' = "running"
    /\ UNCHANGED <<avars, pvars, rvars, gvars, envvars, wkvars, uivars, after_queue>>

\* PrepWorker with finish scheduled in the except clause as well as in the
\* finally clause.
PrepWorker_SchedulesTwice ==
    /\ prep_pc = "running"
    /\ LET steps == PrepSteps(payload)
           ff == FirstFailure(steps)
           cb == [type |-> "prep_finish",
                  err |-> IF ff = 0 THEN None ELSE Some("Error"),
                  data |-> IF ff = 0
                           THEN Some([tp |-> TargetParams(payload),
                                      ip |-> IterationParams(payload)])
                           ELSE None]
       IN  /\ IF ff = 0 THEN TRUE ELSE steps[ff].kind = "raise"
           /\ after_queue' = IF ff = 0 THEN Append(after_queue, cb)
                             ELSE after_queue \o <<cb, cb>>
    /\ prep_pc' = "done"
    /\ UNCHANGED <<avars, pvars, rvars, gvars, envvars, wkvars, uivars>>

\* start.worker runs to its end: the ranges are built, or the first error
\* is caught, and finish is scheduled on the interactive context.
PrepWorker ==
    /\ prep_pc = "running"
    /\ LET steps == PrepSteps(payload)
           ff == FirstFailure(steps)
       IN  /\ IF ff = 0 THEN TRUE ELSE steps[ff].kind = "raise"
           /\ After([type |-> "prep_finish",
                     err |-> IF ff = 0 THEN None ELSE Some("Error"),
                     data |-> IF ff = 0
                              THEN Some([tp |-> TargetParams(payload),
                                         ip |-> IterationParams(payload)])
                              ELSE None])
    /\ prep_pc' = "done"
    /\ UNCHANGED <<avars, pvars, rvars, gvars, envvars, wkvars, uivars>>

\* start.worker enters a stepping loop whose condition never turns false:
\* the loop appends to result until the memory runs out, and the process
\* does not get past it.
PrepWorkerHangs ==
    /\ prep_pc = "running"
    /\ LET steps == PrepSteps(payload)
           ff == FirstFailure(steps)
       IN  ff # 0 /\ steps[ff].kind = "diverge"
    /\ prep_pc' = "hung"
    /\ UNCHANGED <<avars, pvars, rvars, gvars, envvars, wkvars, uivars, after_queue>>

\* The same loop, ended by a MemoryError of result.append: the except
\* clause catches it and finish is scheduled with the error.
PrepWorkerMemoryError ==
    /\ prep_pc = "running"
    /\ LET steps == PrepSteps(payload)
           ff == FirstFailure(steps)
       IN  ff # 0 /\ steps[ff].kind = "diverge"
    /\ After([type |-> "prep_finish", err |-> Some("Error"), data |-> None])
    /\ prep_pc' = "done"
    /\ UNCHANGED <<avars, pvars, rvars, gvars, envvars, wkvars, uivars>>

Callback == after_queue[1]

\* start.worker.finish on the interactive context, the error branch.
UiPrepFailed ==
    /\ after_queue # <<>> /\ Callback.type = "prep_finish" /\ Callback.err # None
    /\ after_queue' = Tail(after_queue)
    /\ errors_shown' = errors_shown + 1
    /\ UNCHANGED <<avars, pvars, rvars, gvars, envvars, wkvars, prep_pc, lw_open, lw_text,
                   info_shown, ui_crashed, saved, target_params,
                   iteration_params>>

\* finish calls iterate_variants and the run-folder root already exists:
\* the error is shown, then os.mkdir raises FileExistsError.
UiIterateVariantsRootExists ==
    /\ after_queue # <<>> /\ Callback.type = "prep_finish" /\ Callback.err = None
    /\ fs_root_exists
    /\ after_queue' = Tail(after_queue)
    /\ target_params' = Some(Val(Callback.data).tp)
    /\ iteration_params' = Some(Val(Callback.data).ip)
    /\ errors_shown' = errors_shown + 1
    /\ ui_crashed' = TRUE
    /\ UNCHANGED <<avars, pvars, rvars, gvars, envvars, wkvars, prep_pc, lw_open, lw_text,
                   info_shown, saved>>

\* UiIterateVariants with os.makedirs(executions_path, exist_ok=True) for
\* the os.mkdir of line 136.
UiIterateVariants_ExistOk ==
    /\ after_queue # <<>> /\ Callback.type = "prep_finish" /\ Callback.err = None
    /\ after_queue' = Tail(after_queue)
    /\ target_params' = Some(Val(Callback.data).tp)
    /\ iteration_params' = Some(Val(Callback.data).ip)
    /\ fs_root_exists' = TRUE
    /\ lw_text' = ProgressText(
                      0, max_combinations_count(n_main_samples,
                                                n_regressor_sets), EmptyDict)
    /\ wk_pc' = "next"
    /\ variation_index' = 0
    /\ leaderboard' = EmptyDict
    /\ gen' = smart_param_generator(Val(Callback.data).ip, n_main_samples,
                                    n_regressor_sets)
    /\ UNCHANGED <<avars, pvars, rvars, variation, payload, n_main_samples,
                   n_regressor_sets, run_folders, prep_pc, wk_err,
                   engine_calls, last_outcome, fed, lw_open, errors_shown,
                   info_shown, ui_crashed, saved>>

\* finish calls iterate_variants: the root folder is made, the progress
\* text is set to 0 / total and the search worker thread is started.
UiIterateVariants ==
    /\ after_queue # <<>> /\ Callback.type = "prep_finish" /\ Callback.err = None
    /\ ~fs_root_exists
    /\ after_queue' = Tail(after_queue)
    /\ target_params' = Some(Val(Callback.data).tp)
    /\ iteration_params' = Some(Val(Callback.data).ip)
    /\ fs_root_exists' = TRUE
    /\ lw_text' = ProgressText(
                      0, max_combinations_count(n_main_samples,
                                                n_regressor_sets), EmptyDict)
    /\ wk_pc' = "next"
    /\ variation_index' = 0
    /\ leaderboard' = EmptyDict
    /\ gen' = smart_param_generator(Val(Callback.data).ip, n_main_samples,
                                    n_regressor_sets)
    /\ UNCHANGED <<avars, pvars, rvars, variation, payload, n_main_samples,
                   n_regressor_sets, run_folders, prep_pc, wk_err,
                   engine_calls, last_outcome, fed, lw_open, errors_shown,
                   info_shown, ui_crashed, saved>>

\* lambda t=text: self.lw.change_text(t)
UiProgress ==
    /\ after_queue # <<>> /\ Callback.type = "progress"
    /\ after_queue' = Tail(after_queue)
    /\ lw_text' = Callback.text
    /\ UNCHANGED <<avars, pvars, rvars, gvars, envvars, wkvars, prep_pc, lw_open,
                   errors_shown, info_shown, ui_crashed, saved, target_params,
                   iteration_params>>

\* UiSearchFinish with self.on_save(leaderboard) after the if / else of
\* lines 272-276, not inside the else.
UiSearchFinish_SavesAlways ==
    /\ after_queue # <<>> /\ Callback.type = "search_finish"
    /\ after_queue' = Tail(after_queue)
    /\ lw_open' = FALSE
    /\ saved' = Append(saved, Callback.leaderboard)
    /\ IF Callback.err # None
       THEN /\ errors_shown' = errors_shown + 1
            /\ UNCHANGED info_shown
       ELSE /\ info_shown' = info_shown + 1
            /\ UNCHANGED errors_shown
    /\ UNCHANGED <<avars, pvars, rvars, gvars, envvars, wkvars, prep_pc,
                   lw_text, ui_crashed, target_params, iteration_params>>

\* iterate_variants.worker.finish on the interactive context.
UiSearchFinish ==
    /\ after_queue # <<>> /\ Callback.type = "search_finish"
    /\ after_queue' = Tail(after_queue)
    /\ lw_open' = FALSE
    /\ IF Callback.err # None
       THEN /\ errors_shown' = errors_shown + 1
            /\ UNCHANGED <<info_shown, saved>>
       ELSE /\ info_shown' = info_shown + 1
            /\ saved' = Append(saved, Callback.leaderboard)
            /\ UNCHANGED errors_shown
    /\ UNCHANGED <<avars, pvars, rvars, gvars, envvars, wkvars, prep_pc, lw_text,
                   ui_crashed, target_params, iteration_params>>

\* The except/finally of iterate_variants.worker: err is kept and finish
\* is scheduled.
WorkerEnds(err) ==
    /\ wk_err' = err
    /\ wk_pc' = "done"
    /\ After([type |-> "search_finish", err |-> err,
              leaderboard |-> leaderboard])

\* WorkerNext with self.lw.change_text(text) called in the worker thread
\* in place of the container.after of lines 157-160.
WorkerNext_DirectText ==
    /\ wk_pc = "next"
    /\ \E r \in GenNext(gen) :
          /\ gen' = r.gen
          /\ IF r.out = None
             THEN /\ WorkerEnds(None)
                  /\ UNCHANGED <<variation, lw_text>>
             ELSE /\ lw_text' = ProgressText(
                                    variation_index + 1,
                                    max_combinations_count(n_main_samples,
                                                           n_regressor_sets),
                                    leaderboard)
                  /\ variation' =
                        Some([Val(r.out) EXCEPT
                                 !.train_start =
                                     Some(Trunc(Val(r.out).base.train_year)),
                                 !.train_end =
                                     Some(Val(target_params).train_year_max)])
                  /\ wk_pc' = "eval"
                  /\ UNCHANGED <<wk_err, after_queue>>
    /\ UNCHANGED <<avars, pvars, rvars, envvars, prep_pc, variation_index, leaderboard,
                   engine_calls, last_outcome, fed, run_folders, lw_open,
                   errors_shown, info_shown, ui_crashed, saved, target_params,
                   iteration_params>>

\* WorkerNext when the candidate it receives is the sampler's base dict
\* itself: the keys set on the candidate land in the sampler's base.
WorkerNext_SharedBase ==
    /\ wk_pc = "next"
    /\ \E r \in GenNext(gen) :
          /\ IF r.out = None
             THEN /\ WorkerEnds(None)
                  /\ gen' = r.gen
                  /\ UNCHANGED variation
             ELSE /\ After([type |-> "progress",
                            text |-> ProgressText(
                                variation_index + 1,
                                max_combinations_count(n_main_samples,
                                                       n_regressor_sets),
                                leaderboard)])
                  /\ variation' =
                        Some([Val(r.out) EXCEPT
                                 !.train_start =
                                     Some(Trunc(Val(r.out).base.train_year)),
                                 !.train_end =
                                     Some(Val(target_params).train_year_max)])
                  /\ gen' = [r.gen EXCEPT !.base =
                                [k \in DOMAIN r.gen.base \cup {"train_start"}
                                   |-> IF k = "train_start"
                                       THEN Trunc(Val(r.out).base.train_year)
                                       ELSE r.gen.base[k]]]
                  /\ wk_pc' = "eval"
                  /\ UNCHANGED wk_err
    /\ UNCHANGED <<avars, pvars, rvars, envvars, uivars, prep_pc, variation_index,
                   leaderboard, engine_calls, last_outcome, fed, run_folders>>

\* The for statement takes the next candidate: the progress text is
\* scheduled and train_start / train_end are set on the candidate; or the
\* generator is exhausted and the loop ends.
WorkerNext ==
    /\ wk_pc = "next"
    /\ \E r \in GenNext(gen) :
          /\ gen' = r.gen
          /\ IF r.out = None
             THEN /\ WorkerEnds(None)
                  /\ UNCHANGED variation
             ELSE /\ After([type |-> "progress",
                            text |-> ProgressText(
                                variation_index + 1,
                                max_combinations_count(n_main_samples,
                                                       n_regressor_sets),
                                leaderboard)])
                  /\ variation' =
                        Some([Val(r.out) EXCEPT
                                 !.train_start =
                                     Some(Trunc(Val(r.out).base.train_year)),
                                 !.train_end =
                                     Some(Val(target_params).train_year_max)])
                  /\ wk_pc' = "eval"
                  /\ UNCHANGED wk_err
    /\ UNCHANGED <<avars, pvars, rvars, envvars, uivars, prep_pc, variation_index,
                   leaderboard, engine_calls, last_outcome, fed, run_folders>>

\* Building the arguments of forecast_with_regressors raises: float() of
\* target_params' min_value or max_value.
WorkerArgsRaise ==
    /\ wk_pc = "eval"
    /\ \/ FloatRaises(Val(target_params).min_value)
       \/ FloatRaises(Val(target_params).max_value)
    /\ WorkerEnds(Some("Error"))
    /\ UNCHANGED <<avars, pvars, rvars, gvars, envvars, uivars, prep_pc, variation_index,
                   leaderboard, engine_calls, last_outcome, fed, run_folders>>

ArgsOk ==
    /\ ~FloatRaises(Val(target_params).min_value)
    /\ ~FloatRaises(Val(target_params).max_value)

\* forecast_with_regressors raises (it makes its output folder first).
WorkerEngineRaises ==
    /\ wk_pc = "eval" /\ ArgsOk
    /\ engine_calls' = Append(engine_calls, variation_index)
    /\ last_outcome' = [NoOutcome EXCEPT !.kind = "raised"]
    /\ run_folders' = run_folders \cup {variation_index}
    /\ WorkerEnds(Some("Error"))
    /\ UNCHANGED <<avars, pvars, rvars, gvars, envvars, uivars, prep_pc, variation_index,
                   leaderboard, fed>>

\* forecast_with_regressors returns and the run folder is not there.
WorkerFolderAbsent ==
    /\ wk_pc = "eval" /\ ArgsOk
    /\ variation_index \notin run_folders
    /\ engine_calls' = Append(engine_calls, variation_index)
    /\ last_outcome' = [NoOutcome EXCEPT !.kind = "absent"]
    /\ wk_pc' = "next"
    /\ UNCHANGED <<avars, pvars, rvars, gvars, envvars, uivars, prep_pc, after_queue,
                   variation_index, leaderboard, wk_err, fed, run_folders>>

\* forecast_with_regressors returns with the run folder written and the
\* persisted accuracy is None: Forecast.getAccuracy raises.
WorkerAccuracyRaises ==
    /\ wk_pc = "eval" /\ ArgsOk
    /\ \E stats \in EngineStats :
          /\ getAccuracy(compute_accuracy(stats)).raised
          /\ last_outcome' = [kind |-> "null",
                              accuracy |-> compute_accuracy(stats)]
    /\ engine_calls' = Append(engine_calls, variation_index)
    /\ run_folders' = run_folders \cup {variation_index}
    /\ WorkerEnds(Some("Error"))
    /\ UNCHANGED <<avars, pvars, rvars, gvars, envvars, uivars, prep_pc, variation_index,
                   leaderboard, fed>>

\* forecast_with_regressors returns with the run folder written: the
\* accuracy is read back, the leaderboard updated, the ordinal advanced.
WorkerRanks ==
    /\ wk_pc = "eval" /\ ArgsOk
    /\ \E stats \in EngineStats :
          LET acc == getAccuracy(compute_accuracy(stats))
          IN  /\ ~acc.raised
              /\ last_outcome' = [kind |-> "ranked",
                                  accuracy |-> compute_accuracy(stats)]
              /\ fed' = Append(fed, acc.value)
              /\ leaderboard' =
                    UpdateLeaderboard(
                        leaderboard,
                        [name |-> variation_index, accuracy |-> acc.value,
                         meta |-> fill_model_meta(Val(target_params),
                                                  Val(variation))])
    /\ engine_calls' = Append(engine_calls, variation_index)
    /\ run_folders' = run_folders \cup {variation_index}
    /\ variation_index' = variation_index + 1
    /\ wk_pc' = "next"
    /\ UNCHANGED <<avars, pvars, rvars, gvars, envvars, uivars, prep_pc, after_queue,
                   wk_err>>

Next ==
    \/ Start
    \/ PrepWorker
    \/ PrepWorkerHangs
    \/ PrepWorkerMemoryError
    \/ UiPrepFailed
    \/ UiIterateVariantsRootExists
    \/ UiIterateVariants
    \/ UiProgress
    \/ UiSearchFinish
    \/ WorkerNext
    \/ WorkerArgsRaise
    \/ WorkerEngineRaises
    \/ WorkerFolderAbsent
    \/ WorkerAccuracyRaises
    \/ WorkerRanks

Spec == Init /\ [][Next]_vars

\* The threads: the preparation worker and the search worker run once
\* started, and the Tk event loop runs every callback scheduled with
\* after(0, ...).
PrepThread == PrepWorker \/ PrepWorkerHangs \/ PrepWorkerMemoryError

UiThread ==
    \/ UiPrepFailed
    \/ UiIterateVariantsRootExists
    \/ UiIterateVariants
    \/ UiProgress
    \/ UiSearchFinish

WorkerThread ==
    \/ WorkerNext
    \/ WorkerArgsRaise
    \/ WorkerEngineRaises
    \/ WorkerFolderAbsent
    \/ WorkerAccuracyRaises
    \/ WorkerRanks

\* The searches with at most one main draw.
InitFair == Init /\ n_main_samples <= 1

FairSpec ==
    /\ InitFair /\ [][Next]_vars
    /\ WF_vars(PrepThread) /\ WF_vars(UiThread) /\ WF_vars(WorkerThread)

(* ============================== claims ================================ *)

LbSize == Cardinality(Ranks(leaderboard))

\* A step of the search worker that feeds a result to the leaderboard.
FeedsResult == Len(fed') = Len(fed) + 1

\* The accuracy that step feeds.
FedAccuracy == fed'[Len(fed')]

(* C1: after every candidate the search worker processes, the leaderboard
   holds at most max_leaders entries, keyed by the ranks 0..size-1, and
   their accuracies do not increase from rank 0 downward. *)
C1_LeaderboardBoundedSorted ==
    /\ LbSize <= max_leaders
    /\ Ranks(leaderboard) = 0..(LbSize - 1)
    /\ \A i, j \in Ranks(leaderboard) :
          i < j => ~FracGt(leaderboard[j].accuracy, leaderboard[i].accuracy)

\* More results than the capacity were fed and the table is full.
C1_Witness == LbSize = max_leaders /\ Len(fed) > max_leaders

(* C2: insertion rule.  A fed result goes immediately before the first
   entry, in rank order, with strictly lower accuracy: the entries above
   keep their ranks, that entry and all below move down one rank and the
   last one is dropped if the table was full.  If no entry is strictly
   lower it is appended when the table is not full, and the leaderboard is
   left unchanged when it is full. *)
C2_InsertionRule ==
    [][FeedsResult =>
        LET lb == leaderboard
            n == LbSize
            lower == {i \in Ranks(lb) : FracGt(FedAccuracy, lb[i].accuracy)}
            p == IF lower # {}
                 THEN CHOOSE i \in lower : \A k \in lower : i <= k
                 ELSE n
            n2 == IF n < max_leaders THEN n + 1 ELSE n
        IN  IF lower = {} /\ n = max_leaders
            THEN leaderboard' = lb
            ELSE /\ Ranks(leaderboard') = 0..(n2 - 1)
                 /\ \A i \in 0..(p - 1) : leaderboard'[i] = lb[i]
                 /\ leaderboard'[p].name = variation_index
                 /\ leaderboard'[p].accuracy = FedAccuracy
                 /\ \A i \in (p + 1)..(n2 - 1) : leaderboard'[i] = lb[i - 1]
    ]_vars

\* The table was full and the latest result went in above rank 1's entry,
\* pushing the last entry out.
C2_Witness ==
    /\ LbSize = max_leaders
    /\ Len(fed) > max_leaders
    /\ leaderboard[0].name = variation_index - 1

\* The k highest of a set of accuracies.
Highest(accs, k) ==
    {a \in accs : Cardinality({b \in accs : FracGt(b, a)}) < k}

Distinct(s) == \A i, j \in 1..Len(s) : i # j => s[i] # s[j]

(* C3: once more results than the capacity k have been fed, all with
   pairwise distinct accuracies, the leaderboard holds exactly the k
   highest of them, in strictly descending order. *)
C3_KeepsTopK ==
    (Len(fed) > max_leaders /\ Distinct(fed)) =>
        /\ LbSize = max_leaders
        /\ {leaderboard[i].accuracy : i \in Ranks(leaderboard)}
               = Highest(Range(fed), max_leaders)
        /\ \A i, j \in Ranks(leaderboard) :
              i < j => FracGt(leaderboard[i].accuracy, leaderboard[j].accuracy)

\* More distinct accuracies than the capacity were fed, the lowest first.
C3_Witness ==
    /\ Len(fed) > max_leaders
    /\ Distinct(fed)
    /\ \A k \in 2..Len(fed) : FracGt(fed[k], fed[1])

(* C4: tie rule.  Feeding a result whose accuracy equals that of an entry
   of the leaderboard leaves that entry in the leaderboard at the same
   rank. *)
C4_TieKeepsExisting ==
    [][FeedsResult =>
        \A i \in Ranks(leaderboard) :
            leaderboard[i].accuracy = FedAccuracy =>
                /\ i \in Ranks(leaderboard')
                /\ leaderboard'[i] = leaderboard[i]
    ]_vars

\* Two entries tie and the run found earlier ranks above the later one,
\* with a lower entry pushed out below them.
C4_Witness ==
    /\ Len(fed) > max_leaders
    /\ \E i, j \in Ranks(leaderboard) :
          /\ i < j
          /\ leaderboard[i].accuracy = leaderboard[j].accuracy
          /\ leaderboard[i].name < leaderboard[j].name

(* C5: smart_param_generator(space, m, n) yields exactly m*(n+1)
   candidates, the count the search computes up front as
   max_combinations_count, and the candidate at position i*(n+1), the
   baseline of main draw i, has an empty regressor set. *)
C5_SamplerCount ==
    /\ gen.done => gen.yielded = max_combinations_count(gen.m, gen.n)
    /\ gen.yielded <= max_combinations_count(gen.m, gen.n)
    /\ (variation # None /\ (gen.yielded - 1) % (gen.n + 1) = 0) =>
           Val(variation).regressors = EmptyDict

\* A generator with regressors to choose from is exhausted after several
\* main draws, the last candidate carrying a regressor.
C5_Witness ==
    /\ gen.done
    /\ gen.m >= 2 /\ gen.n >= 1
    /\ variation # None /\ Val(variation).regressors # EmptyDict

StrictlyIncreasing(s) == \A k \in 1..(Len(s) - 1) : s[k] < s[k + 1]

(* C6: for every min < max, with or without a step or max_steps,
   get_variations_in_range returns a strictly increasing sequence whose
   first element is min and whose last element is max. *)
C6_RangeIncreasingMinToMax ==
    (rg_out # Pending /\ rg_in.min_val < rg_in.max_val) =>
        /\ rg_out.kind = "ok"
        /\ StrictlyIncreasing(rg_out.values)
        /\ rg_out.values[1] = rg_in.min_val
        /\ rg_out.values[Len(rg_out.values)] = rg_in.max_val

(* C7: with step omitted and max_steps = N given, the sequence returned
   for min < max has at most N values. *)
C7_RangeLengthCapped ==
    (/\ rg_out.kind = "ok"
     /\ rg_in.step = None
     /\ rg_in.max_steps # None
     /\ rg_in.min_val < rg_in.max_val) =>
        Len(rg_out.values) <= Val(rg_in.max_steps)

(* C8: get_variations_in_range raises an error for every min > max. *)
C8_InvertedRangeRaises ==
    (rg_out # Pending /\ rg_in.min_val > rg_in.max_val) =>
        rg_out.kind = "raise"

(* C9: an exception raised by forecast_with_regressors for one candidate
   does not abort the search: the worker goes on to the next candidate
   with no error recorded, and the search does not end in an error. *)
C9_EngineFailureNotFatal ==
    [][(last_outcome'.kind = "raised" /\ engine_calls' # engine_calls) =>
        (wk_pc' = "next" /\ wk_err' = None)
    ]_vars

(* C10: when a run completes and its persisted accuracy is None, the
   leaderboard is left unchanged, the evaluated counter advances by one
   and the worker goes on to the next candidate. *)
C10_NullAccuracySkipped ==
    [][(last_outcome'.kind = "null" /\ engine_calls' # engine_calls) =>
        /\ leaderboard' = leaderboard
        /\ variation_index' = variation_index + 1
        /\ wk_pc' = "next"
    ]_vars

(* C11: when the run folder is absent after an engine call that returned,
   no error is recorded, the leaderboard is unchanged and the candidate
   ordinal variation_index advances by one, as for a ranked run. *)
C11_AbsentFolderCounted ==
    [][(last_outcome'.kind = "absent" /\ engine_calls' # engine_calls) =>
        /\ wk_err' = None
        /\ leaderboard' = leaderboard
        /\ variation_index' = variation_index + 1
    ]_vars

(* C12: if the run-folder root exists when the search is started, the
   search worker is never started, the engine is never invoked and no
   candidate is evaluated. *)
C12_ExistingRootRejected ==
    fs_root_exists =>
        [](/\ wk_pc = "none"
           /\ engine_calls = <<>>
           /\ run_folders = {}
           /\ variation = None
           /\ info_shown = 0
           /\ saved = <<>>)

\* iterate_variants was entered with the root in place: the error box was
\* shown and os.mkdir raised.
C12_Witness == ui_crashed /\ errors_shown = 1 /\ target_params # None

\* The preparation worker stops at a float() or int() of a payload string
\* that is no number (not at an error of the range arithmetic).
ParseFails(p) ==
    LET ff == FirstFailure(PrepSteps(p))
    IN  IF ff = 0 THEN FALSE
        ELSE IF ff = 1 THEN IntRaises(p.train_to_year)
        ELSE IF ff = 2
        THEN \/ FloatRaises(p.min_single_regressor_value)
             \/ FloatRaises(p.max_single_regressor_value)
        ELSE IF ff = 3
        THEN FloatRaises(p.train_from_year) \/ FloatRaises(p.train_to_year)
        ELSE \/ FloatRaises(p.bounds[TunedKeys[ff - 3]][1])
             \/ FloatRaises(p.bounds[TunedKeys[ff - 3]][2])

(* C13: when a numeric field of the payload fails to parse while the
   ranges are built, iterate_variants is never called, no run folder is
   made, no candidate is evaluated, the error box is shown at most once,
   and exactly once when the preparation has ended and its finish callback
   has run. *)
C13_ParseErrorFails ==
    ParseFails(payload) =>
        /\ target_params = None /\ iteration_params = None
        /\ wk_pc = "none"
        /\ engine_calls = <<>>
        /\ run_folders = {}
        /\ info_shown = 0 /\ saved = <<>>
        /\ prep_pc # "hung"
        /\ errors_shown <= 1
        /\ (prep_pc = "done" /\ after_queue = <<>>) => errors_shown = 1

\* A payload with an unparsable field went through preparation and the
\* error was shown.
C13_Witness ==
    /\ ParseFails(payload)
    /\ prep_pc = "done" /\ after_queue = <<>> /\ errors_shown = 1

\* The progress reports scheduled and not yet shown.
QueuedReports ==
    {i \in 1..Len(after_queue) : after_queue[i].type = "progress"}

(* C14: a progress report carrying the completed count k is issued after
   the k-th candidate has been evaluated: whenever a report with count k is
   scheduled or on screen, at least k engine calls have been made. *)
C14_ReportAfterEvaluation ==
    /\ \A i \in QueuedReports :
          after_queue[i].text.completed <= Len(engine_calls)
    /\ lw_text.kind = "progress" => lw_text.completed <= Len(engine_calls)

\* The completed count of the latest report issued: the last one still
\* scheduled, else the one on screen.
LastReported ==
    IF QueuedReports # {}
    THEN after_queue[CHOOSE i \in QueuedReports :
                        \A k \in QueuedReports : k <= i].text.completed
    ELSE lw_text.completed

(* C15: the completed counts of successive progress reports are strictly
   increasing, whatever the outcome of each evaluation. *)
C15_CountsIncrease ==
    [][(wk_pc = "next" /\ wk_pc' = "eval") =>
        after_queue'[Len(after_queue')].text.completed > LastReported
    ]_vars

(* C16: every started search eventually reaches Finished or Failed: once
   the preparation worker runs, an info box or an error box is eventually
   shown. *)
C16_SearchEnds ==
    (prep_pc = "running") ~> (info_shown > 0 \/ errors_shown > 0)

\* The settings of candidate v of a search on payload p: the target, the
\* training window from the sampled start year to the payload's end year,
\* the chosen regressors with their weights, every other sampled value.
CandidateSettings(p, v) ==
    [name |-> p.name, timeseries |-> p.timeseries, parameter |-> p.parameter,
     train_from |-> Some(Trunc(v.base.train_year)),
     train_to |-> Some(Trunc(Val(p.train_to_year))),
     min_value |-> p.min_value, max_value |-> p.max_value,
     result_freq |-> p.result_freq, model_freq |-> p.model_freq,
     regressors |-> DOMAIN v.regressors, weights |-> v.regressors,
     params |-> [k \in DOMAIN v.base \ {"train_year"} |-> v.base[k]]]

(* C17: on_save is called only when the candidates are exhausted without
   error and receives the worker's leaderboard, keyed by the contiguous
   ranks 0..len-1; every entry that enters the leaderboard carries the run
   name of the engine call just made, the accuracy read back from it and
   the settings of the candidate just evaluated, and every other entry is
   one the leaderboard already held. *)
C17_SavedLeaderboard ==
    [][/\ FeedsResult =>
            \A i \in Ranks(leaderboard') :
                \/ \E j \in Ranks(leaderboard) :
                       leaderboard[j] = leaderboard'[i]
                \/ /\ leaderboard'[i].name = engine_calls'[Len(engine_calls')]
                   /\ leaderboard'[i].accuracy = FedAccuracy
                   /\ leaderboard'[i].meta =
                         CandidateSettings(payload, Val(variation))
       /\ saved' # saved =>
            /\ saved' = Append(saved, leaderboard)
            /\ Ranks(leaderboard) = 0..(LbSize - 1)
            /\ wk_err = None
            /\ gen.done
    ]_vars

\* on_save received a full leaderboard with an entry that has regressors.
C17_Witness ==
    /\ Len(saved) = 1
    /\ Cardinality(DOMAIN saved[1]) = max_leaders
    /\ \E i \in DOMAIN saved[1] : saved[1][i].meta.regressors # {}

(* C18: within one search no two engine calls use the same run folder
   run-<ordinal>. *)
C18_RunFoldersUnique ==
    \A i, j \in 1..Len(engine_calls) :
        i # j => engine_calls[i] # engine_calls[j]

(* C19: every change of interactive-owned state (the loading window and
   its text, the message boxes, the on_save delivery) happens in a step
   that runs the callback at the head of the after queue, never in a step
   of the preparation worker or of the search worker. *)
C19_UiOnlyFromCallbacks ==
    [][(<<lw_text, lw_open, errors_shown, info_shown, saved>>' #
            <<lw_text, lw_open, errors_shown, info_shown, saved>>) =>
        /\ after_queue # <<>>
        /\ after_queue' = Tail(after_queue)
        /\ prep_pc' = prep_pc
        /\ engine_calls' = engine_calls
        /\ wk_pc \in {"next", "eval"} => wk_pc' = wk_pc
    ]_vars

\* The worker's reports reached the screen and the search finished: the
\* text shows the second candidate, the window is closed, the info box
\* was shown and on_save called.
C19_Witness ==
    /\ lw_text.kind = "progress" /\ lw_text.completed >= 2
    /\ ~lw_open /\ info_shown = 1 /\ Len(saved) = 1

(* C20: for every strategy and regressor histories of length >= 1,
   _forecast_regressors_future returns exactly one row per timestamp of
   the requested range, with no regressor value missing. *)
C20_ProjectionDense ==
    (/\ pj_out # PendingProjection
     /\ \A r \in 1..Len(pj_in.hists) : Len(pj_in.hists[r]) >= 1) =>
        /\ pj_out.kind = "ok"
        /\ Len(pj_out.rows) = Len(date_range(pj_in.fcst_start, pj_in.fcst_end))
        /\ \A i \in 1..Len(pj_out.rows) :
              /\ pj_out.rows[i].ds = pj_in.fcst_start + i - 1
              /\ \A r \in 1..Len(pj_in.hists) : pj_out.rows[i].cols[r] # None

(* C21: when min == 0, for every max >= 0, get_variations_in_range returns
   0 followed by 1.0 and by the discretization from 1.0 upward: the result
   is 0 put before the result for min = 1.0. *)
C21_ZeroSeedsOne ==
    (rg_out # Pending /\ rg_in.min_val = 0 /\ rg_in.max_val >= 0) =>
        /\ rg_out.kind = "ok"
        /\ Len(rg_out.values) >= 2
        /\ rg_out.values[1] = 0
        /\ rg_out.values[2] = Dec(1, 0)
        /\ rg_out.values =
              <<0>> \o get_variations_in_range(Dec(1, 0), rg_in.max_val,
                                               rg_in.step,
                                               rg_in.max_steps).values

(* C26: for every min <= max, every value get_variations_in_range returns
   lies in the closed interval [min, max]. *)
C26_ValuesWithinBounds ==
    (rg_out.kind = "ok" /\ rg_in.min_val <= rg_in.max_val) =>
        \A k \in 1..Len(rg_out.values) :
            /\ rg_in.min_val <= rg_out.values[k]
            /\ rg_out.values[k] <= rg_in.max_val

(* C27: get_variations_in_range terminates for every min <= max with step
   omitted, negative min included. *)
C27_RangeTerminates ==
    (rg_out # Pending /\ rg_in.min_val <= rg_in.max_val
                      /\ rg_in.step = None) =>
        rg_out.kind # "diverge"

(* C22: every candidate passed to the engine has its training window start
   on January 1 of its sampled train_year and end on December 31 of the
   payload's train_to_year, and when train_from_year <= train_to_year the
   start is not after the end (a year stands for its January 1 in
   train_start and for its December 31 in train_end). *)
C22_TrainingWindow ==
    (wk_pc = "eval" /\ ArgsOk) =>
        LET v == Val(variation)
        IN  /\ v.train_start = Some(Trunc(v.base.train_year))
            /\ v.train_end = Some(Trunc(Val(payload.train_to_year)))
            /\ (Val(payload.train_from_year) <= Val(payload.train_to_year)
                  => Val(v.train_start) <= Val(v.train_end))

(* C23: in every candidate of a search each regressor name is a declared
   regressor other than the target parameter, and each regressor's weight
   is an element of the range built from min_single_regressor_value and
   max_single_regressor_value. *)
C23_RegressorsDeclaredAndWeighted ==
    variation # None =>
        LET v == Val(variation)
            weights == RangeOf(payload.min_single_regressor_value,
                               payload.max_single_regressor_value,
                               None, Some(10)).values
        IN  \A r \in DOMAIN v.regressors :
                /\ r \in Range(payload.regressors)
                /\ r # payload.parameter
                /\ v.regressors[r] \in Range(weights)

\* A candidate with a regressor is being evaluated, the payload declaring
\* the target parameter among the regressors and more than one weight.
C23_Witness ==
    /\ wk_pc = "eval"
    /\ variation # None
    /\ DOMAIN Val(variation).regressors # {}
    /\ payload.parameter \in Range(payload.regressors)
    /\ \E r \in DOMAIN Val(variation).regressors :
          Val(variation).regressors[r] = Dec(2, 0)

(* C24: the search worker hands every candidate on exactly as the sampler
   yielded it, and while a candidate is evaluated neither the candidate
   nor the sampler's state changes. *)
C24_CandidateNotMutated ==
    [][/\ (wk_pc = "next" /\ wk_pc' = "eval") =>
              variation' \in {r.out : r \in GenNext(gen)}
       /\ wk_pc = "eval" => (variation' = variation /\ gen' = gen)
    ]_vars

(* C24 as amended: the search worker adds train_start and train_end to
   the candidate the sampler yielded and changes nothing else of it; every
   yielded candidate holds the sampled keys only, whatever was done to the
   candidates before it; while a candidate is evaluated neither it nor the
   sampler's state changes, and a leaderboard entry made from it carries
   its regressors and parameters as yielded. *)
C24_OnlyWindowAdded ==
    [][/\ (wk_pc = "next" /\ wk_pc' = "eval") =>
              \E r \in GenNext(gen) :
                  /\ r.out # None
                  /\ gen' = r.gen
                  /\ DOMAIN Val(r.out).base = DOMAIN gen.space.simple
                  /\ Val(r.out).train_start = None
                  /\ Val(r.out).train_end = None
                  /\ Val(variation').base = Val(r.out).base
                  /\ Val(variation').regressors = Val(r.out).regressors
       /\ wk_pc = "eval" => (variation' = variation /\ gen' = gen)
       /\ (wk_pc = "eval" /\ leaderboard' # leaderboard) =>
              \E i \in DOMAIN leaderboard' :
                  /\ leaderboard'[i].name = variation_index
                  /\ leaderboard'[i].meta.weights = Val(variation).regressors
                  /\ \A k \in DOMAIN leaderboard'[i].meta.params :
                        leaderboard'[i].meta.params[k] = Val(variation).base[k]
    ]_vars

\* A later candidate of the same main draw is being evaluated, after the
\* window keys were set on the one before it and that one was ranked.
C24_Witness ==
    /\ wk_pc = "eval"
    /\ gen.yielded >= 2
    /\ gen.j # 1
    /\ Val(variation).train_start # None
    /\ Cardinality(DOMAIN leaderboard) >= 1

\* The actuals recorded at a timestamp; the prediction timestamps that
\* have a non-missing, non-zero actual; those of them within the tolerance.
ActualAt(ds) ==
    {ac_in.actuals_on_grid[j].y : j \in {k \in 1..Len(ac_in.actuals_on_grid) :
                                            ac_in.actuals_on_grid[k].ds = ds}}

Evaluated ==
    {i \in 1..Len(ac_in.pred) :
        \E y \in ActualAt(ac_in.pred[i].ds) : y # None /\ Val(y) # 0}

Within ==
    {i \in Evaluated :
        \E y \in ActualAt(ac_in.pred[i].ds) :
            /\ y # None /\ Val(y) # 0
            /\ Abs(ac_in.pred[i].yhat - Val(y)) * ac_in.tolerance[2]
                  <= ac_in.tolerance[1] * Abs(Val(y))}

(* C25: for any prediction series and actual series the accuracy statistic
   is n_within / n_eval, n_eval counting the prediction timestamps with a
   non-missing, non-zero actual and n_within those of them with
   |yhat - y| / |y| <= tolerance; so 0 <= n_within <= n_eval <= n_total,
   the accuracy lies in [0, 1], and it is None exactly when n_eval = 0. *)
C25_AccuracyStatistic ==
    ac_out # PendingAccuracy =>
        /\ ac_out.n_total = Len(ac_in.pred)
        /\ ac_out.n_eval = Cardinality(Evaluated)
        /\ ac_out.n_within = Cardinality(Within)
        /\ 0 <= ac_out.n_within
        /\ ac_out.n_within <= ac_out.n_eval
        /\ ac_out.n_eval <= ac_out.n_total
        /\ (ac_out.accuracy = None) <=> (ac_out.n_eval = 0)
        /\ ac_out.accuracy # None =>
              /\ Val(ac_out.accuracy)[1] * ac_out.n_eval
                    = ac_out.n_within * Val(ac_out.accuracy)[2]
              /\ 0 <= Val(ac_out.accuracy)[1]
              /\ Val(ac_out.accuracy)[1] <= Val(ac_out.accuracy)[2]

\* Two predictions scored at 1 %: one has a zero actual, the other lies
\* exactly 1 % off its actual.
C25_Witness ==
    /\ ac_out # PendingAccuracy
    /\ ac_in.tolerance = <<1, 100>>
    /\ ac_out.n_total = 2
    /\ ac_out.n_eval = 1
    /\ ac_out.n_within = 1
    /\ \E j \in 1..Len(ac_in.actuals_on_grid) :
          ac_in.actuals_on_grid[j].y = Some(0)

(* C28: on_save is invoked at most once per search, and only when the
   search worker went through all candidates without any error; once an
   error has occurred in the preparation or in the search, on_save is not
   invoked and the leaderboard built so far is not delivered. *)
C28_SaveOnceOnlyOnSuccess ==
    /\ Len(saved) <= 1
    /\ Len(saved) = 1 =>
          /\ wk_pc = "done" /\ wk_err = None
          /\ gen.done
          /\ saved[1] = leaderboard
    /\ (wk_err # None \/ errors_shown > 0) => saved = <<>>

\* on_save was invoked after a search of several engine calls.
C28_Witness ==
    /\ Len(saved) = 1
    /\ info_shown = 1
    /\ Len(engine_calls) >= 2

\* The entries of a leaderboard and the run ordinals that name them.
Entries(lb) == {lb[i] : i \in Ranks(lb)}

Names(lb) == {lb[i].name : i \in Ranks(lb)}

(* C29: over any sequence of processed outcomes the leaderboard's size
   never decreases; once it is full, it stays full and the accuracy of
   its lowest-ranked entry never decreases; an evicted entry never
   reappears: an entry that enters is the run just evaluated, whose
   ordinal is above that of every run ranked before, evicted or not. *)
C29_LeaderboardMonotone ==
    [][/\ Cardinality(Ranks(leaderboard')) >= LbSize
       /\ LbSize = max_leaders =>
              /\ Cardinality(Ranks(leaderboard')) = max_leaders
              /\ ~FracGt(leaderboard[max_leaders - 1].accuracy,
                         leaderboard'[max_leaders - 1].accuracy)
       /\ \A e \in Entries(leaderboard') \ Entries(leaderboard) :
              /\ e.name = variation_index
              /\ variation_index' = variation_index + 1
       /\ \A n \in Names(leaderboard) : n < variation_index
       /\ variation_index' >= variation_index
    ]_vars

\* A full leaderboard from which the first run ranked has been evicted:
\* the lowest-ranked accuracy is above the first one fed.
C29_Witness ==
    /\ LbSize = max_leaders
    /\ Len(fed) > max_leaders
    /\ 0 \notin Names(leaderboard)
    /\ FracGt(leaderboard[max_leaders - 1].accuracy, fed[1])

(* C30: in every terminal state of a search (finished, or failed in the
   preparation, at the run-folder pre-flight check, or while running),
   the loading window created with the orchestrator has been closed. *)
C30_WindowClosedAtEnd ==
    (info_shown > 0 \/ errors_shown > 0) => ~lw_open

====
